---- MODULE Spec2Model ----
(***************************************************************************)
(* Model of speech.py: the conversation loop of the voice agent, the       *)
(* Anthropic model interface with its conversation log, and the scanner    *)
(* that extracts {...} file-creation commands from a reply.                *)
(*                                                                         *)
(* A Python str is modelled as a sequence of one-character strings, so     *)
(* that scanning, slicing, str.replace, the `in` substring test and        *)
(* json.loads are computed character by character.                         *)
(***************************************************************************)
EXTENDS Integers, Sequences, FiniteSets, TLC

\* ------------------------------------------------------------------ bounds

\* Number of non-empty transcripts (Thinking passes) of one session.
MaxTurns == 2
\* Number of pieces concatenated into one input of HandleFileCreationString.
MaxPieces == 2
\* Length of the brace-only inputs of HandleFileCreationString.
MaxLen == 7

\* ------------------------------------------------------------ str helpers

\* F applied to the value of e: e is evaluated once, as a Python call
\* evaluates its argument before the body runs.
Call(F(_), e) == CHOOSE r \in {F(x) : x \in {e}} : TRUE

RECURSIVE Concat(_)
Concat(ss) ==
  IF ss = <<>> THEN <<>> ELSE Head(ss) \o Concat(Tail(ss))

\* Python `sub in s`.
Contains(s, sub) ==
  \E i \in 0..(Len(s) - Len(sub)) : SubSeq(s, i + 1, i + Len(sub)) = sub

IsPrefix(s, t) ==
  Len(s) <= Len(t) /\ SubSeq(t, 1, Len(s)) = s

\* Python s.rstrip(): trailing whitespace removed.
RECURSIVE RStrip(_)
RStrip(s) ==
  IF s # <<>> /\ s[Len(s)] \in {" ", "\n"}
  THEN RStrip(SubSeq(s, 1, Len(s) - 1))
  ELSE s

\* The last position is taken instead of the first.
Min_Last(S) == CHOOSE x \in S : \A y \in S : x >= y

Min(S) == CHOOSE x \in S : \A y \in S : x <= y

\* Either brace is taken for the one looked for.
Positions_AnyBrace(s, i, c) == {j \in i..Len(s) : s[j] \in {"{", "}"}}

\* Positions from i on where s holds the character c.
Positions(s, i, c) == {j \in i..Len(s) : s[j] = c}

\* Positions from i on where an occurrence of sub starts in s.
Occurrences(s, i, sub) ==
  {j \in i..(Len(s) - Len(sub) + 1) : SubSeq(s, j, j + Len(sub) - 1) = sub}

\* Python s.replace(old, ""), old non-empty: the non-overlapping occurrences
\* of old, found left to right from position i on, are dropped.
RECURSIVE ReplaceFrom(_, _, _)
ReplaceFrom(s, old, i) ==
  LET Drop(j) == SubSeq(s, i, j - 1) \o ReplaceFrom(s, old, j + Len(old)) IN
  IF Occurrences(s, i, old) = {} THEN SubSeq(s, i, Len(s))
  ELSE Call(Drop, Min(Occurrences(s, i, old)))

Replace(s, old) == ReplaceFrom(s, old, 1)

\* --------------------------------------------------------------- literals

\* "It was good talking with you."
TerminatePhrase ==
  <<"I","t"," ","w","a","s"," ","g","o","o","d"," ","t","a","l","k","i","n",
    "g"," ","w","i","t","h"," ","y","o","u",".">>

\* "Hello!"
Greeting == <<"H","e","l","l","o","!">>

\* "It seems you didn't say anything."
NothingHeard ==
  <<"I","t"," ","s","e","e","m","s"," ","y","o","u"," ","d","i","d","n","'",
    "t"," ","s","a","y"," ","a","n","y","t","h","i","n","g",".">>

\* ------------------------------------------------------------- json.loads
\* json.loads on a candidate block.  A block starts with "{" and ends with
\* its only "}".  The inputs of this model carry no digit, bracket,
\* backslash or bare-word literal, so a value that parses is a string and a
\* nested "{" outside a string is a decode error.  Whitespace is " ".

RECURSIVE SkipWs(_, _)
SkipWs(s, i) ==
  IF i <= Len(s) /\ s[i] = " " THEN SkipWs(s, i + 1) ELSE i

\* Index of the closing quote of the string whose opening quote is before i,
\* or 0 when the string is unterminated.
RECURSIVE CloseQuote(_, _)
CloseQuote(s, i) ==
  IF i > Len(s) THEN 0
  ELSE IF s[i] = "\"" THEN i
  ELSE CloseQuote(s, i + 1)

DecodeError == [ok |-> FALSE, obj |-> <<>>]

\* obj is the dict built so far, as a sequence of <<key, value>> pairs.
RECURSIVE ParseMembers(_, _, _)
ParseMembers(s, i, obj) ==
  IF i > Len(s) \/ s[i] # "\"" THEN DecodeError
  ELSE
    LET ke == CloseQuote(s, i + 1) IN
    IF ke = 0 THEN DecodeError
    ELSE
      LET c == SkipWs(s, ke + 1) IN
      IF c > Len(s) \/ s[c] # ":" THEN DecodeError
      ELSE
        LET v == SkipWs(s, c + 1) IN
        IF v > Len(s) \/ s[v] # "\"" THEN DecodeError
        ELSE
          LET ve == CloseQuote(s, v + 1) IN
          IF ve = 0 THEN DecodeError
          ELSE
            LET n    == SkipWs(s, ve + 1)
                obj2 == Append(obj, <<SubSeq(s, i + 1, ke - 1),
                                      SubSeq(s, v + 1, ve - 1)>>)
            IN
            IF n > Len(s) THEN DecodeError
            ELSE IF s[n] = "}"
                 THEN (IF n = Len(s) THEN [ok |-> TRUE, obj |-> obj2]
                                     ELSE DecodeError)
            ELSE IF s[n] = ","
                 THEN ParseMembers(s, SkipWs(s, n + 1), obj2)
            ELSE DecodeError

JsonLoads(s) ==
  IF Len(s) < 2 \/ s[1] # "{" THEN DecodeError
  ELSE LET i == SkipWs(s, 2) IN
       IF i <= Len(s) /\ s[i] = "}"
       THEN (IF i = Len(s) THEN [ok |-> TRUE, obj |-> <<>>] ELSE DecodeError)
       ELSE ParseMembers(s, i, <<>>)

\* key in f
HasKey(obj, k) == \E j \in 1..Len(obj) : obj[j][1] = k

\* f[key]: a repeated key keeps its last value.
Lookup(obj, k) ==
  LET j == CHOOSE j \in 1..Len(obj) :
             /\ obj[j][1] = k
             /\ \A m \in (j + 1)..Len(obj) : obj[m][1] # k
  IN obj[j][2]

KeyFile == <<"f","i","l","e">>
KeyText == <<"t","e","x","t">>

\* ----------------------------------------------------------- WriteJsonFile
\* The effect of one call on the file system fs (path -> content): the new
\* file system, the writes performed, the diagnostics printed, and the
\* exception that leaves the call ("none" when it returns normally).

Malformed(string) == [msg |-> "Malformed JSON", block |-> string]
WrongFields == [msg |-> "Wrong fields in JSON", block |-> <<>>]

NoWrite(fs, diags, raised) ==
  [files |-> fs, writes |-> <<>>, diags |-> diags, raised |-> raised]

\* The file is opened for appending.
WriteJsonFile_Appending(string, fs) ==
  LET Body(f) ==
  IF ~f.ok THEN NoWrite(fs, <<Malformed(string)>>, "none")
  ELSE IF ~HasKey(f.obj, KeyFile) THEN NoWrite(fs, <<>>, "KeyError")
  ELSE IF Lookup(f.obj, KeyFile) = <<>> THEN NoWrite(fs, <<WrongFields>>, "none")
  ELSE IF ~HasKey(f.obj, KeyText) THEN NoWrite(fs, <<>>, "KeyError")
  ELSE IF Lookup(f.obj, KeyText) = <<>> THEN NoWrite(fs, <<WrongFields>>, "none")
  ELSE [files  |-> (Lookup(f.obj, KeyFile) :>
                      ((IF Lookup(f.obj, KeyFile) \in DOMAIN fs
                        THEN fs[Lookup(f.obj, KeyFile)] ELSE <<>>)
                       \o Lookup(f.obj, KeyText))) @@ fs,
        writes |-> <<[file |-> Lookup(f.obj, KeyFile),
                      text |-> Lookup(f.obj, KeyText)]>>,
        diags  |-> <<>>,
        raised |-> "none"]
  IN Call(Body, JsonLoads(string))

WriteJsonFile(string, fs) ==
  LET Body(f) ==
  IF ~f.ok THEN NoWrite(fs, <<Malformed(string)>>, "none")
  ELSE IF ~HasKey(f.obj, KeyFile) THEN NoWrite(fs, <<>>, "KeyError")
  ELSE IF Lookup(f.obj, KeyFile) = <<>> THEN NoWrite(fs, <<WrongFields>>, "none")
  ELSE IF ~HasKey(f.obj, KeyText) THEN NoWrite(fs, <<>>, "KeyError")
  ELSE IF Lookup(f.obj, KeyText) = <<>> THEN NoWrite(fs, <<WrongFields>>, "none")
  ELSE [files  |-> (Lookup(f.obj, KeyFile) :> Lookup(f.obj, KeyText)) @@ fs,
        writes |-> <<[file |-> Lookup(f.obj, KeyFile),
                      text |-> Lookup(f.obj, KeyText)]>>,
        diags  |-> <<>>,
        raised |-> "none"]
  IN Call(Body, JsonLoads(string))

\* ------------------------------------------------ HandleFileCreationString
\* The scan loop.  idx is the 1-based position of `value`; st carries the
\* loop's locals and the effects so far.  spans records where each
\* json_content was cut from (start, end), both inclusive.

ScanInit(fs) ==
  [in_json |-> FALSE, start_idx |-> 1, json_to_replace |-> <<>>,
   spans |-> <<>>, files |-> fs, writes |-> <<>>, diags |-> <<>>,
   raised |-> "none"]

\* The loop body at idx, a "}" met while in_json: the block is cut out,
\* written and marked for removal.
CloseBlock(string, idx, st) ==
  LET Step(w) ==
        [st EXCEPT
           !.in_json = FALSE,
           !.files = w.files,
           !.writes = @ \o w.writes,
           !.diags = @ \o w.diags,
           !.raised = w.raised,
           !.spans = Append(@, <<st.start_idx, idx>>),
           !.json_to_replace =
              IF w.raised = "none"
              THEN Append(@, SubSeq(string, st.start_idx, idx))
              ELSE @]
      Write(json_content) == WriteJsonFile(json_content, st.files)
  IN Call(Step, Call(Write, SubSeq(string, st.start_idx, idx)))

\* The loop from idx on.  Iterations that change nothing are passed over:
\* while not in_json only a "{" acts, while in_json only a "}" does.
RECURSIVE ScanLoop(_, _, _)
ScanLoop(string, idx, st) ==
  LET Open(j)  == ScanLoop(string, j + 1,
                           [st EXCEPT !.in_json = TRUE, !.start_idx = j])
      Rest(next) == ScanLoop(string, next.at + 1, next.st)
      Close(j) == Call(Rest, [at |-> j, st |-> CloseBlock(string, j, st)])
      acting == Positions(string, idx, IF st.in_json THEN "}" ELSE "{")
  IN
  IF st.raised # "none" \/ acting = {} THEN st
  ELSE IF st.in_json THEN Call(Close, Min(acting))
  ELSE Call(Open, Min(acting))

\* scrubbed_string after the replace loop.
RECURSIVE Scrub(_, _)
Scrub(scrubbed_string, json_to_replace) ==
  LET Rest(scrubbed) == Scrub(scrubbed, Tail(json_to_replace)) IN
  IF json_to_replace = <<>> THEN scrubbed_string
  ELSE Call(Rest, Replace(scrubbed_string, Head(json_to_replace)))

HandleFileCreationString(string, fs) ==
  LET Result(st) ==
        [raised |-> st.raised,
         value  |-> IF st.raised = "none"
                    THEN Scrub(string, st.json_to_replace)
                    ELSE <<>>,
         files  |-> st.files,
         writes |-> st.writes,
         diags  |-> st.diags,
         spans  |-> st.spans]
  IN Call(Result, ScanLoop(string, 1, ScanInit(fs)))

\* -------------------------------------------------------- CheckForTerminate

\* The phrase is compared for equality.
CheckForTerminate_Exact(string) == string = TerminatePhrase

CheckForTerminate(string) == Contains(string, TerminatePhrase)

\* ----------------------------------------------------------------- inputs
\* Sample texts, written out character by character.

\* hi
Hi ==
  <<"h","i">>

\* yo
Yo ==
  <<"y","o">>

\* {"file":"a","text":"x"}
DirOk ==
  <<"{","\"","f","i","l","e","\"",":","\"","a","\"",",","\"","t","e","x",
    "t","\"",":","\"","x","\"","}">>

\* {"file":"a","text":"y"}
DirOkY ==
  <<"{","\"","f","i","l","e","\"",":","\"","a","\"",",","\"","t","e","x",
    "t","\"",":","\"","y","\"","}">>

\* { "text" : "x" , "file" : "b" }
DirOkB ==
  <<"{"," ","\"","t","e","x","t","\""," ",":"," ","\"","x","\""," ",","," ",
    "\"","f","i","l","e","\""," ",":"," ","\"","b","\""," ","}">>

\* {"file":"","text":"x"}
DirEmptyFile ==
  <<"{","\"","f","i","l","e","\"",":","\"","\"",",","\"","t","e","x","t",
    "\"",":","\"","x","\"","}">>

\* {"file":"a","text":""}
DirEmptyText ==
  <<"{","\"","f","i","l","e","\"",":","\"","a","\"",",","\"","t","e","x",
    "t","\"",":","\"","\"","}">>

\* {"file":"a"}
DirNoText ==
  <<"{","\"","f","i","l","e","\"",":","\"","a","\"","}">>

\* {"text":"x"}
DirNoFile ==
  <<"{","\"","t","e","x","t","\"",":","\"","x","\"","}">>

\* {}
DirEmptyObj ==
  <<"{","}">>

\* {no}
DirBad ==
  <<"{","n","o","}">>

Pieces ==
  {Hi, <<" ">>, <<"{">>, <<"}">>, TerminatePhrase, DirOk, DirOkY, DirOkB,
   DirEmptyFile, DirEmptyText, DirNoText, DirNoFile, DirEmptyObj, DirBad}

BraceChars == {"{", "}", "a"}

\* Texts in which one block's literal occurs inside another block.
\* {a}{{a}a}{a}  and  {a}{{a}a}
NestedInputs ==
  {<<"{","a","}","{","{","a","}","a","}","{","a","}">>,
   <<"{","a","}","{","{","a","}","a","}">>}

\* The texts HandleFileCreationString is applied to on its own.
Inputs ==
  {Concat(ps) : ps \in UNION {[1..k -> Pieces] : k \in 0..MaxPieces}}
    \cup UNION {[1..k -> BraceChars] : k \in 0..MaxLen}
    \cup NestedInputs

\* What recorder.text() may return.
Transcripts == {<<>>, Hi, Yo}

\* The texts the model may reply with.
Replies ==
  {<<>>, Hi, TerminatePhrase,
   Hi \o <<" ">> \o TerminatePhrase \o <<" ">> \o Hi,
   DirOk, Hi \o DirOk, TerminatePhrase \o DirOkB,
   DirEmptyObj \o DirOk \o TerminatePhrase,
   DirNoText, DirEmptyFile, DirBad,
   <<"{">> \o TerminatePhrase \o <<"}">>,
   SubSeq(TerminatePhrase, 1, 12) \o DirBad \o SubSeq(TerminatePhrase, 13, 29),
   <<"{","a","}","{","{","a","}">>}

\* What client.messages.create may do: return a message or raise.
ApiFailures == {"APIConnectionError", "RateLimitError", "APIStatusError"}

ApiOutcomes ==
  {[kind |-> "ok", text |-> r] : r \in Replies}
    \cup {[kind |-> k, text |-> <<>>] : k \in ApiFailures}

\* What anthropic-api-key.txt may hold ("absent": there is no such file).
KeyFiles == {"absent", <<>>, <<"\n">>, <<"k">>, <<"k","\n">>}

\* The file system the session starts with.
InitialFiles == (<<"a">> :> <<"o","l","d">>)

\* ---------------------------------------------------------------- state

VARIABLES
  pc,                \* where the main program is
  key_file,          \* anthropic-api-key.txt
  conversation_log,  \* AnthropicModelInterface.conversation_log
  heard_text,        \* main loop local
  response,          \* main loop local
  text_to_say,       \* main loop local
  files,             \* the file system: path -> content
  played,            \* texts given to sd.play since the loop body began
  written,           \* writes done since the loop body began
  turns,             \* loop bodies that heard a non-empty transcript
  api_outcome,       \* what the last client.messages.create did
  api_calls,         \* number of client.messages.create calls
  exit_cause,        \* why the process ended
  arg,               \* HandleFileCreationString applied on its own: input
  ret                \* ... and result

vars ==
  <<pc, key_file, conversation_log, heard_text, response, text_to_say, files,
    played, written, turns, api_outcome, api_calls, exit_cause, arg, ret>>

loop_vars ==
  <<pc, key_file, conversation_log, heard_text, response, text_to_say, files,
    played, written, turns, api_outcome, api_calls, exit_cause>>

NoOutcome == [kind |-> "none", text |-> <<>>]
NotCalled == [called |-> FALSE]

\* ------------------------------------------------ AnthropicModelInterface

Turn(role, text) == [role |-> role, text |-> text]

\* The log kept as a window of the latest messages.
AddUserMessage_Window(log, text) ==
  Append(IF Len(log) >= 2 THEN Tail(Tail(log)) ELSE log, Turn("user", text))

AddUserMessage(log, text) == Append(log, Turn("user", text))

\* An empty reply is not logged.
AddAgentMessage_SkipEmpty(log, text) ==
  IF text = <<>> THEN log ELSE Append(log, Turn("assistant", text))

\* The reply is logged with the user's role.
AddAgentMessage_AsUser(log, text) == Append(log, Turn("user", text))

AddAgentMessage(log, text) == Append(log, Turn("assistant", text))

\* The handler of RateLimitError is missing.
MakeAnthropicAPICall_NoRateLimit(outcome) ==
  IF outcome.kind = "ok" THEN [raised |-> "none", value |-> outcome.text]
  ELSE IF outcome.kind = "RateLimitError"
       THEN [raised |-> outcome.kind, value |-> <<>>]
  ELSE [raised |-> "none", value |-> <<>>]

\* The value returned, or the exception that leaves the call.
MakeAnthropicAPICall(outcome) ==
  IF outcome.kind = "ok" THEN [raised |-> "none", value |-> outcome.text]
  ELSE IF outcome.kind = "APIConnectionError"
       THEN [raised |-> "none", value |-> <<>>]
  ELSE IF outcome.kind = "RateLimitError"
       THEN [raised |-> "none", value |-> <<>>]
  ELSE IF outcome.kind = "APIStatusError"
       THEN [raised |-> "none", value |-> <<>>]
  ELSE [raised |-> outcome.kind, value |-> <<>>]

\* The key is not stripped before the test.
KeyProvided_NoStrip(content) == content # <<>>

\* __init__: the key check; TRUE when the constructor goes on.
KeyProvided(content) == RStrip(content) # <<>>

\* ------------------------------------------------------------ main program

\* The test of heard_text is missing.
NothingSaid_Never(heard) == FALSE

\* The test of text_to_say is missing.
HasTextToSay_Always(text) == TRUE

\* if (not heard_text): ... continue
NothingSaid(heard) == heard = <<>>

\* if (text_to_say):
HasTextToSay(text) == text # <<>>

Exit(cause) ==
  /\ pc' = "terminated"
  /\ exit_cause' = cause

\* anthropic_interface = AnthropicModelInterface()
Construct ==
  /\ pc = "construct"
  /\ IF key_file = "absent"
     THEN Exit("FileNotFoundError") /\ UNCHANGED conversation_log
     ELSE IF ~KeyProvided(key_file)
          THEN Exit("No key provided") /\ UNCHANGED conversation_log
          ELSE /\ pc' = "greet"
               /\ conversation_log' = <<>>
               /\ UNCHANGED exit_cause
  /\ UNCHANGED <<key_file, heard_text, response, text_to_say, files, played,
                 written, turns, api_outcome, api_calls, arg, ret>>

\* Say hello
Greet ==
  /\ pc = "greet"
  /\ played' = Append(played, Greeting)
  /\ pc' = "listen"
  /\ UNCHANGED <<key_file, conversation_log, heard_text, response,
                 text_to_say, files, written, turns, api_outcome, api_calls,
                 exit_cause, arg, ret>>

\* Top of the loop body up to the test of heard_text.
Listen ==
  /\ pc = "listen"
  /\ \E t \in Transcripts :
       /\ NothingSaid(t) \/ turns < MaxTurns
       /\ heard_text' = t
       /\ IF NothingSaid(t)
          THEN pc' = "nothing_heard" /\ UNCHANGED turns
          ELSE pc' = "add_user" /\ turns' = turns + 1
  /\ played' = <<>>
  /\ written' = <<>>
  /\ UNCHANGED <<key_file, conversation_log, response, text_to_say, files,
                 api_outcome, api_calls, exit_cause, arg, ret>>

\* The canned message, then continue.
SayNothingHeard ==
  /\ pc = "nothing_heard"
  /\ played' = Append(played, NothingHeard)
  /\ pc' = "listen"
  /\ UNCHANGED <<key_file, conversation_log, heard_text, response,
                 text_to_say, files, written, turns, api_outcome, api_calls,
                 exit_cause, arg, ret>>

UserTurn ==
  /\ pc = "add_user"
  /\ conversation_log' = AddUserMessage(conversation_log, heard_text)
  /\ pc' = "call_api"
  /\ UNCHANGED <<key_file, heard_text, response, text_to_say, files, played,
                 written, turns, api_outcome, api_calls, exit_cause, arg, ret>>

CallApi ==
  /\ pc = "call_api"
  /\ \E outcome \in ApiOutcomes :
       LET r == MakeAnthropicAPICall(outcome) IN
       /\ api_outcome' = outcome
       /\ IF r.raised = "none"
          THEN /\ response' = r.value
               /\ pc' = "add_agent"
               /\ UNCHANGED exit_cause
          ELSE Exit(r.raised) /\ UNCHANGED response
  /\ api_calls' = api_calls + 1
  /\ UNCHANGED <<key_file, conversation_log, heard_text, text_to_say, files,
                 played, written, turns, arg, ret>>

AgentTurn ==
  /\ pc = "add_agent"
  /\ conversation_log' = AddAgentMessage(conversation_log, response)
  /\ pc' = "extract"
  /\ UNCHANGED <<key_file, heard_text, response, text_to_say, files, played,
                 written, turns, api_outcome, api_calls, exit_cause, arg, ret>>

\* text_to_say = (HandleFileCreationString(response))
Extract ==
  /\ pc = "extract"
  /\ \E r \in {HandleFileCreationString(response, files)} :
     /\ files' = r.files
     /\ written' = written \o r.writes
     /\ IF r.raised = "none"
        THEN /\ text_to_say' = r.value
             /\ pc' = "speak"
             /\ UNCHANGED exit_cause
        ELSE Exit(r.raised) /\ UNCHANGED text_to_say
  /\ UNCHANGED <<key_file, conversation_log, heard_text, response, played,
                 turns, api_outcome, api_calls, arg, ret>>

\* Generate and play speech if there's text to say.
Speak ==
  /\ pc = "speak"
  /\ IF HasTextToSay(text_to_say)
     THEN played' = Append(played, text_to_say) /\ pc' = "check"
     ELSE UNCHANGED played /\ pc' = "listen"
  /\ UNCHANGED <<key_file, conversation_log, heard_text, response,
                 text_to_say, files, written, turns, api_outcome, api_calls,
                 exit_cause, arg, ret>>

\* if CheckForTerminate(text_to_say): exit()
Check ==
  /\ pc = "check"
  /\ IF CheckForTerminate(text_to_say)
     THEN Exit("termination phrase")
     ELSE pc' = "listen" /\ UNCHANGED exit_cause
  /\ UNCHANGED <<key_file, conversation_log, heard_text, response,
                 text_to_say, files, played, written, turns, api_outcome,
                 api_calls, arg, ret>>

\* Ctrl+C is not delivered while audio is being played.
Interrupt_NotWhileSpeaking ==
  /\ pc \notin {"terminated", "apply", "speak", "check"}
  /\ Exit("KeyboardInterrupt")
  /\ UNCHANGED <<key_file, conversation_log, heard_text, response,
                 text_to_say, files, played, written, turns, api_outcome,
                 api_calls, arg, ret>>

\* Ctrl+C: caught around the loop, uncaught before it; the process ends.
Interrupt ==
  /\ pc # "terminated"
  /\ pc # "apply"
  /\ Exit("KeyboardInterrupt")
  /\ UNCHANGED <<key_file, conversation_log, heard_text, response,
                 text_to_say, files, played, written, turns, api_outcome,
                 api_calls, arg, ret>>

Init ==
  /\ pc = "construct"
  /\ key_file \in KeyFiles
  /\ conversation_log = <<>>
  /\ heard_text = <<>>
  /\ response = <<>>
  /\ text_to_say = <<>>
  /\ files = InitialFiles
  /\ played = <<>>
  /\ written = <<>>
  /\ turns = 0
  /\ api_outcome = NoOutcome
  /\ api_calls = 0
  /\ exit_cause = "none"
  /\ arg = <<>>
  /\ ret = NotCalled

Next ==
  \/ Construct
  \/ Greet
  \/ Listen
  \/ SayNothingHeard
  \/ UserTurn
  \/ CallApi
  \/ AgentTurn
  \/ Extract
  \/ Speak
  \/ Check
  \/ Interrupt

Spec == Init /\ [][Next]_vars

\* ------------------------------- HandleFileCreationString applied on its own

InitHandle ==
  /\ pc = "apply"
  /\ key_file = <<"k">>
  /\ conversation_log = <<>>
  /\ heard_text = <<>>
  /\ response = <<>>
  /\ text_to_say = <<>>
  /\ files = InitialFiles
  /\ played = <<>>
  /\ written = <<>>
  /\ turns = 0
  /\ api_outcome = NoOutcome
  /\ api_calls = 0
  /\ exit_cause = "none"
  /\ arg \in Inputs
  /\ ret = NotCalled

Apply ==
  /\ pc = "apply"
  /\ ~ret.called
  /\ ret' = [called |-> TRUE, out |-> HandleFileCreationString(arg, files)]
  /\ UNCHANGED <<loop_vars, arg>>

SpecHandle == InitHandle /\ [][Apply]_vars

\* ================================================================= claims

LastTurn(log) == log[Len(log)]

\* --- C1
\* One pass through Thinking appends exactly one user turn holding the
\* transcript and then exactly one assistant turn holding the reply
\* (possibly empty), and nothing is played before both are in the log:
\* the log has 2*turns - 1 entries once the user turn is in, 2*turns once
\* the assistant turn is in, and played is empty until Speak.
C1_ThinkingAppends ==
  /\ pc = "add_user" =>
       /\ Len(conversation_log) = 2 * (turns - 1)
       /\ played = <<>>
  /\ pc \in {"call_api", "add_agent"} =>
       /\ Len(conversation_log) = 2 * turns - 1
       /\ LastTurn(conversation_log) = Turn("user", heard_text)
       /\ heard_text # <<>>
       /\ played = <<>>
  /\ pc \in {"extract", "speak", "check"} =>
       /\ Len(conversation_log) = 2 * turns
       /\ conversation_log[2 * turns - 1] = Turn("user", heard_text)
       /\ conversation_log[2 * turns] = Turn("assistant", response)
       /\ heard_text # <<>>
  /\ pc \in {"extract", "speak"} => played = <<>>
  /\ pc = "check" => played = <<text_to_say>>

C1_Witness ==
  /\ pc = "check"
  /\ turns = 2
  /\ conversation_log[2].text = <<>>
  /\ conversation_log[3] = Turn("user", Yo)
  /\ conversation_log[4] = Turn("assistant", Hi \o DirOk)
  /\ played = <<Hi>>

\* --- C2
\* The text returned by HandleFileCreationString is the input with the
\* characters of every matched block span removed and every other
\* character kept, in order.
Outside(s, spans) ==
  {i \in 1..Len(s) : \A k \in 1..Len(spans) : i < spans[k][1] \/ i > spans[k][2]}

KeepOutside(s, spans) ==
  [n \in 1..Cardinality(Outside(s, spans)) |->
     s[CHOOSE i \in Outside(s, spans) :
         Cardinality({j \in Outside(s, spans) : j < i}) = n - 1]]

C2_Original ==
  (ret.called /\ ret.out.raised = "none") =>
     ret.out.value = KeepOutside(arg, ret.out.spans)

\* --- C3
\* A candidate block that parses as JSON but whose file or text field is
\* absent or empty causes no write, a diagnostic, the removal of the block
\* from the cleaned text, and a normal return.
Block(s, span) == SubSeq(s, span[1], span[2])

FieldAbsentOrEmpty(obj, k) == ~HasKey(obj, k) \/ Lookup(obj, k) = <<>>

LacksFields(block) ==
  /\ JsonLoads(block).ok
  /\ \/ FieldAbsentOrEmpty(JsonLoads(block).obj, KeyFile)
     \/ FieldAbsentOrEmpty(JsonLoads(block).obj, KeyText)

\* A block that parses with a non-empty file and a non-empty text.
IsDirective(block) == JsonLoads(block).ok /\ ~LacksFields(block)

Range(seq) == {seq[i] : i \in 1..Len(seq)}

C3_Original ==
  ret.called =>
    \A k \in 1..Len(ret.out.spans) :
      LacksFields(Block(arg, ret.out.spans[k])) =>
        /\ ret.out.raised = "none"
        /\ WrongFields \in Range(ret.out.diags)
        /\ ~Contains(ret.out.value, Block(arg, ret.out.spans[k]))
        /\ Len(ret.out.writes) =
             Cardinality({j \in 1..Len(ret.out.spans) :
                            IsDirective(Block(arg, ret.out.spans[j]))})

C5_FailureIsEmptyReply ==
  api_outcome.kind \in ApiFailures =>
    /\ exit_cause \notin ApiFailures
    /\ pc \in {"add_agent", "extract", "speak"} => response = <<>>
    /\ pc \in {"extract", "speak"} =>
         LastTurn(conversation_log) = Turn("assistant", <<>>)
    /\ pc # "check"

C5_Witness ==
  /\ api_outcome.kind = "RateLimitError"
  /\ pc = "add_agent"
  /\ turns = 2
  /\ conversation_log[2] = Turn("assistant", <<>>)
  /\ response = <<>>

\* --- C6
\* The process ends only by a fatal setup failure, a user interrupt, or
\* speaking an utterance with the termination phrase; a failed API call, an
\* empty transcript or a malformed directive never ends it.
C6_Original ==
  pc = "terminated" =>
    exit_cause \in {"FileNotFoundError", "No key provided",
                    "KeyboardInterrupt", "termination phrase"}

\* --- C7
\* On an empty transcript the controller plays the fixed message and goes
\* back to Listening (unless interrupted): the log is unchanged, no API
\* call is made, nothing is extracted or written.
C7_EmptyTranscript ==
  [][/\ (pc = "listen" /\ pc' # "terminated" /\ heard_text' = <<>>) =>
          /\ pc' = "nothing_heard"
          /\ UNCHANGED <<conversation_log, api_calls, files, response,
                         text_to_say, turns>>
     /\ (pc = "nothing_heard" /\ pc' # "terminated") =>
          /\ heard_text = <<>>
          /\ pc' = "listen"
          /\ played' = <<NothingHeard>>
          /\ written' = <<>>
          /\ UNCHANGED <<conversation_log, api_calls, files, response,
                         text_to_say, turns>>]_vars

C7_Witness ==
  /\ pc = "listen"
  /\ played = <<NothingHeard>>
  /\ heard_text = <<>>
  /\ Len(conversation_log) = 2
  /\ api_calls = 1

\* --- C8
\* A candidate block that is not valid JSON is removed from the cleaned
\* text, causes no write and a diagnostic, and the blocks after it are
\* still processed.
C8_Original ==
  ret.called =>
    \A k \in 1..Len(ret.out.spans) :
      ~JsonLoads(Block(arg, ret.out.spans[k])).ok =>
        /\ ret.out.raised = "none"
        /\ Malformed(Block(arg, ret.out.spans[k])) \in Range(ret.out.diags)
        /\ ~Contains(ret.out.value, Block(arg, ret.out.spans[k]))
        /\ ret.out.value = KeepOutside(arg, ret.out.spans)
        /\ Len(ret.out.writes) =
             Cardinality({j \in 1..Len(ret.out.spans) :
                            IsDirective(Block(arg, ret.out.spans[j]))})

\* --- C9
\* When the cleaned utterance is empty nothing is played for the turn, the
\* termination check is not reached, and the controller goes back to
\* Listening (unless interrupted).
C9_EmptyUtterance ==
  [][(pc = "speak" /\ text_to_say = <<>>) =>
       /\ played = <<>>
       /\ played' = <<>>
       /\ pc' \in {"listen", "terminated"}
       /\ pc' = "terminated" => exit_cause' = "KeyboardInterrupt"]_vars

C9_Witness ==
  /\ pc = "listen"
  /\ text_to_say = <<>>
  /\ response = DirOk
  /\ LastTurn(conversation_log) = Turn("assistant", DirOk)
  /\ played = <<>>
  /\ written # <<>>

\* --- C10
\* The conversation log is append-only: in every step the old log is a
\* prefix of the new one.
C10_AppendOnly ==
  [][IsPrefix(conversation_log, conversation_log')]_vars

C10_Witness ==
  /\ Len(conversation_log) = 4
  /\ pc = "listen"

\* --- C11
\* A user interrupt is accepted wherever the program is (startup,
\* listening, thinking, speaking) and ends the process at once: the step
\* plays nothing, appends nothing to the log, calls the API no more, and
\* no step follows the end of the process.
C11_InterruptAnywhere ==
  /\ [](pc # "terminated" => ENABLED Interrupt)
  /\ [][/\ pc = "terminated" => FALSE
        /\ exit_cause' = "KeyboardInterrupt" =>
             /\ pc' = "terminated"
             /\ UNCHANGED <<conversation_log, played, api_calls, files,
                            written>>]_vars

C11_Witness ==
  /\ exit_cause = "KeyboardInterrupt"
  /\ pc = "terminated"
  /\ Len(conversation_log) = 3
  /\ api_calls = 1
  /\ played = <<>>

\* --- C12
\* (stated after C14, with the definitions of the scan)

\* --- C13
\* With the key file missing or empty (after rstrip) the process ends in
\* the constructor: no greeting is played, Listening is never entered, the
\* API is never called.
C13_NoKeyNoSession ==
  (key_file = "absent" \/ RStrip(key_file) = <<>>) =>
    /\ pc \in {"construct", "terminated"}
    /\ pc = "terminated" =>
         exit_cause \in {"FileNotFoundError", "No key provided",
                         "KeyboardInterrupt"}
    /\ played = <<>>
    /\ api_calls = 0
    /\ conversation_log = <<>>
    /\ turns = 0

C13_Witness ==
  /\ <<"\n">> = key_file
  /\ pc = "terminated"
  /\ exit_cause = "No key provided"

\* --- C16
\* The roles in the log alternate user, assistant, ... from a user turn
\* on; the log has even length while Listening; when the API is called the
\* log is non-empty and ends with the user turn of the current transcript.
C16_Alternation ==
  /\ \A i \in 1..Len(conversation_log) :
       conversation_log[i].role =
         IF i % 2 = 1 THEN "user" ELSE "assistant"
  /\ pc \in {"listen", "nothing_heard"} => Len(conversation_log) % 2 = 0
  /\ pc = "call_api" =>
       /\ conversation_log # <<>>
       /\ LastTurn(conversation_log) = Turn("user", heard_text)
       /\ heard_text # <<>>

C16_Witness ==
  /\ pc = "call_api"
  /\ Len(conversation_log) = 3
  /\ conversation_log[2].role = "assistant"

\* --- C14
\* The matched blocks are the spans that start at a "{" met outside a
\* block and end at the first "}" after it: each span starts with "{",
\* ends with its only "}", the spans are disjoint and in text order, no "{"
\* lies between them (a "{" inside a span is ignored), and once the scan
\* has reached the end no "{" after the last span has a "}" after it.
SpanEnd(spans, k) == IF k = 0 THEN 0 ELSE spans[k][2]

C14_Blocks ==
  ret.called =>
    /\ \A k \in 1..Len(ret.out.spans) :
         /\ ret.out.spans[k][1] < ret.out.spans[k][2]
         /\ arg[ret.out.spans[k][1]] = "{"
         /\ arg[ret.out.spans[k][2]] = "}"
         /\ \A i \in ret.out.spans[k][1]..(ret.out.spans[k][2] - 1) :
              arg[i] # "}"
         /\ SpanEnd(ret.out.spans, k - 1) < ret.out.spans[k][1]
         /\ \A i \in (SpanEnd(ret.out.spans, k - 1) + 1)..
                     (ret.out.spans[k][1] - 1) : arg[i] # "{"
    /\ ret.out.raised = "none" =>
         \A i \in (SpanEnd(ret.out.spans, Len(ret.out.spans)) + 1)..Len(arg) :
           arg[i] = "{" => \A j \in i..Len(arg) : arg[j] # "}"

C14_Witness ==
  /\ ret.called
  /\ ret.out.raised = "none"
  /\ Len(ret.out.spans) = 2
  /\ \E i \in (ret.out.spans[1][1] + 1)..ret.out.spans[1][2] : arg[i] = "{"
  /\ \E i \in (ret.out.spans[2][2] + 1)..Len(arg) : arg[i] = "{"

\* --- C12
\* A text with no "{" that has a "}" after it is returned unchanged, with
\* no write and no diagnostic, so extracting from the result again gives
\* the same text.
NoPair(s) ==
  ~\E i \in 1..Len(s) : \E j \in i..Len(s) : s[i] = "{" /\ s[j] = "}"

C12_NoPairUnchanged ==
  (ret.called /\ NoPair(arg)) =>
    /\ ret.out.raised = "none"
    /\ ret.out.value = arg
    /\ ret.out.writes = <<>>
    /\ ret.out.files = files
    /\ ret.out.spans = <<>>
    /\ HandleFileCreationString(ret.out.value, ret.out.files).value
         = ret.out.value

C12_Witness ==
  /\ ret.called
  /\ NoPair(arg)
  /\ Positions(arg, 1, "{") # {}
  /\ Positions(arg, 1, "}") # {}
  /\ ret.out.value = arg

\* --- C15
\* Each matched block that parses with a non-empty file and text causes
\* one write, in block order, that replaces the content of its path: the
\* writes are those of the matched directives in order, every path a
\* matched directive names holds the text of the last one naming it, and
\* every other path is as before.
Nth(S, n) == CHOOSE i \in S : Cardinality({j \in S : j < i}) = n - 1

FileOf(block) == Lookup(JsonLoads(block).obj, KeyFile)
TextOf(block) == Lookup(JsonLoads(block).obj, KeyText)

Directives(s, spans) ==
  {k \in 1..Len(spans) : IsDirective(Block(s, spans[k]))}

C15_Writes ==
  ret.called =>
    LET D == Directives(arg, ret.out.spans)
        B(k) == Block(arg, ret.out.spans[k])
        Naming(p) == {k \in D : FileOf(B(k)) = p}
    IN
    /\ Len(ret.out.writes) = Cardinality(D)
    /\ \A n \in 1..Len(ret.out.writes) :
         ret.out.writes[n] =
           [file |-> FileOf(B(Nth(D, n))), text |-> TextOf(B(Nth(D, n)))]
    /\ \A k \in D :
         /\ FileOf(B(k)) \in DOMAIN ret.out.files
         /\ ret.out.files[FileOf(B(k))] =
              TextOf(B(Nth(Naming(FileOf(B(k))),
                           Cardinality(Naming(FileOf(B(k)))))))
    /\ \A p \in DOMAIN ret.out.files \cup DOMAIN files :
         Naming(p) = {} =>
           /\ p \in DOMAIN files
           /\ p \in DOMAIN ret.out.files
           /\ ret.out.files[p] = files[p]

C15_Witness ==
  /\ ret.called
  /\ Len(ret.out.writes) = 2
  /\ ret.out.writes[1].file = ret.out.writes[2].file
  /\ ret.out.writes[1].text # ret.out.writes[2].text
  /\ ret.out.writes[1].file \in DOMAIN files
  /\ ret.out.files[ret.out.writes[1].file] = ret.out.writes[2].text

\* --- C17
\* A "{" with no "}" after it and a "}" met outside a block form no block:
\* nothing is written for them and they stay in the cleaned text, in order.
StrayBraces(s, spans) ==
  LET stray == {i \in Outside(s, spans) : s[i] \in {"{", "}"}} IN
  [n \in 1..Cardinality(stray) |-> s[Nth(stray, n)]]

RECURSIVE SubseqFrom(_, _, _, _)
SubseqFrom(needle, k, hay, i) ==
  IF k > Len(needle) THEN TRUE
  ELSE IF Positions(hay, i, needle[k]) = {} THEN FALSE
  ELSE SubseqFrom(needle, k + 1, hay, Min(Positions(hay, i, needle[k])) + 1)

C17_Original ==
  (ret.called /\ ret.out.raised = "none") =>
    /\ Len(ret.out.writes) <= Len(ret.out.spans)
    /\ SubseqFrom(StrayBraces(arg, ret.out.spans), 1, ret.out.value, 1)

\* --- C18
\* Within a turn the writes of the reply's directives come after the
\* assistant turn is appended and before anything is played; so when the
\* process ends (other than by a user interrupt) after a reply that holds
\* valid directives and the termination phrase, all of them are written.
RECURSIVE AllSpansFrom(_, _)
AllSpansFrom(s, i) ==
  IF Positions(s, i, "{") = {} THEN <<>>
  ELSE IF Positions(s, Min(Positions(s, i, "{")), "}") = {} THEN <<>>
  ELSE <<<<Min(Positions(s, i, "{")),
           Min(Positions(s, Min(Positions(s, i, "{")), "}"))>>>>
         \o AllSpansFrom(s, Min(Positions(s, Min(Positions(s, i, "{")), "}")) + 1)

C18_Original ==
  /\ pc \in {"add_user", "call_api", "add_agent", "extract"} => written = <<>>
  /\ played # <<>> /\ pc = "check" =>
       Len(written) =
         Cardinality(Directives(response, AllSpansFrom(response, 1)))
  /\ ( /\ pc = "terminated"
       /\ exit_cause # "KeyboardInterrupt"
       /\ conversation_log # <<>>
       /\ LastTurn(conversation_log) = Turn("assistant", response)
       /\ Contains(response, TerminatePhrase)
       /\ Directives(response, AllSpansFrom(response, 1)) # {} ) =>
       Len(written) =
         Cardinality(Directives(response, AllSpansFrom(response, 1)))

====
